---- MODULE Spec2Model ----
(***************************************************************************)
(* future_posts/remove-trailing-zeros.py: two functions that strip the     *)
(* trailing decimal zeros of an integer, and the eight %timeit statements  *)
(* that benchmark them.                                                    *)
(*                                                                         *)
(* Python integers are unbounded, so no operator below wraps.  str, rstrip *)
(* and int are modelled on sequences of one-character strings.             *)
(***************************************************************************)
EXTENDS Integers, Sequences, FiniteSets, TLC

VARIABLES
    arg,          \* the integer handed to the functions by the caller
    strip_pc,     \* remove_zeros_strip: position in the evaluation of line 5
    strip_n,      \* remove_zeros_strip: parameter n
    strip_s,      \* remove_zeros_strip: the string under evaluation
    strip_ret,    \* remove_zeros_strip: returned value (read when returned)
    strip_exc,    \* remove_zeros_strip: exception leaving the call, "" if none
    strip_depth,  \* 1: called on arg, 2: called on its own result
    while_pc,     \* remove_zeros_while: position in lines 8-10
    while_n,      \* remove_zeros_while: the local n
    while_ret,    \* remove_zeros_while: returned value (read when returned)
    while_depth,  \* 1: called on arg, 2: called on its own result
    while_arg,    \* history: the value n was bound to at the call
    while_iter,   \* history: number of executions of line 9 in this call
    line,         \* the module-level statement being executed (12..19), 20 past the end
    reps,         \* calls that the current %timeit statement has made
    called        \* history: the <<function, argument>> pairs called by the script

vars == <<arg, strip_pc, strip_n, strip_s, strip_ret, strip_exc, strip_depth,
          while_pc, while_n, while_ret, while_depth, while_arg, while_iter,
          line, reps, called>>

stripVars == <<strip_pc, strip_n, strip_s, strip_ret, strip_exc, strip_depth>>
whileVars == <<while_pc, while_n, while_ret, while_depth, while_arg, while_iter>>
scriptVars == <<line, reps, called>>

----------------------------------------------------------------------------
(* Bounds *)

\* the caller of the functions draws n from -MaxN .. MaxN and the literals
MaxN == 1010
\* the history counter while_iter saturates here (only n = 0 gets that far)
MaxIter == 12
\* a %timeit statement calls its function between 1 and MaxReps times
MaxReps == 3

----------------------------------------------------------------------------
(* Python built-ins used by the source *)

DigitChars == <<"0", "1", "2", "3", "4", "5", "6", "7", "8", "9">>

\* variant: the remainder taken by ten times the divisor (n % 100)
PyModTimesTen(a, b) == a % (b * 10)

\* variant: the quotient by ten times the divisor (n //= 100)
PyFloorDivHundred(a, b) == a \div (b * 10)

\* a % b and a // b of Python, for b > 0: floored, as % and \div are
PyMod(a, b) == a % b
PyFloorDiv(a, b) == a \div b

RECURSIVE StrNat(_)
StrNat(m) ==
    IF m < 10 THEN <<DigitChars[m + 1]>>
    ELSE Append(StrNat(m \div 10), DigitChars[(m % 10) + 1])

\* str(n) for an int
Str(n) == IF n < 0 THEN <<"-">> \o StrNat(-n) ELSE StrNat(n)

\* variant: at most one c removed from the right end
RstripOnce(s, c) ==
    IF s # <<>> /\ s[Len(s)] = c THEN SubSeq(s, 1, Len(s) - 1) ELSE s

\* s.rstrip(c) for a one-character c
RECURSIVE Rstrip(_, _)
Rstrip(s, c) ==
    IF s # <<>> /\ s[Len(s)] = c
    THEN Rstrip(SubSeq(s, 1, Len(s) - 1), c)
    ELSE s

IsDigit(c) == \E i \in 1..10 : DigitChars[i] = c
DigitVal(c) == (CHOOSE i \in 1..10 : DigitChars[i] = c) - 1

RECURSIVE ParseNat(_)
ParseNat(s) ==
    IF s = <<>> THEN 0
    ELSE 10 * ParseNat(SubSeq(s, 1, Len(s) - 1)) + DigitVal(s[Len(s)])

\* the digits of an int literal: after an optional sign
IntBody(s) == IF s # <<>> /\ s[1] \in {"-", "+"} THEN Tail(s) ELSE s

\* variant: a parser that takes the empty string too (as 0)
IntOkLenient(s) == \A i \in 1..Len(IntBody(s)) : IsDigit(IntBody(s)[i])

\* int(s) succeeds on an optional sign followed by at least one digit
\* (strings here are str(n).rstrip('0'): no blanks, no underscores)
IntOk(s) == IntBody(s) # <<>> /\ \A i \in 1..Len(IntBody(s)) : IsDigit(IntBody(s)[i])

\* variant: the sign is dropped
IntValUnsigned(s) == ParseNat(IntBody(s))

IntVal(s) ==
    IF s # <<>> /\ s[1] = "-" THEN -ParseNat(IntBody(s)) ELSE ParseNat(IntBody(s))

----------------------------------------------------------------------------
(* def remove_zeros_strip(n): return int(str(n).rstrip('0')) *)

CallStrip(n, depth) ==
    /\ strip_pc' = "str"
    /\ strip_n' = n
    /\ strip_s' = <<>>
    /\ strip_ret' = 0
    /\ strip_exc' = ""
    /\ strip_depth' = depth

StripStr ==
    /\ strip_pc = "str"
    /\ strip_s' = Str(strip_n)
    /\ strip_pc' = "rstrip"
    /\ UNCHANGED <<strip_n, strip_ret, strip_exc, strip_depth>>
    /\ UNCHANGED <<arg, whileVars, scriptVars>>

\* s.lstrip(c) for a one-character c
RECURSIVE Lstrip(_, _)
Lstrip(s, c) == IF s # <<>> /\ s[1] = c THEN Lstrip(Tail(s), c) ELSE s

\* variant: lstrip('0') in place of rstrip('0')
StripLstrip ==
    /\ strip_pc = "rstrip"
    /\ strip_s' = Lstrip(strip_s, "0")
    /\ strip_pc' = "int"
    /\ UNCHANGED <<strip_n, strip_ret, strip_exc, strip_depth>>
    /\ UNCHANGED <<arg, whileVars, scriptVars>>

StripRstrip ==
    /\ strip_pc = "rstrip"
    /\ strip_s' = Rstrip(strip_s, "0")
    /\ strip_pc' = "int"
    /\ UNCHANGED <<strip_n, strip_ret, strip_exc, strip_depth>>
    /\ UNCHANGED <<arg, whileVars, scriptVars>>

StripInt ==
    /\ strip_pc = "int"
    /\ IF IntOk(strip_s)
       THEN /\ strip_ret' = IntVal(strip_s)
            /\ strip_pc' = "returned"
            /\ strip_exc' = ""
       ELSE /\ strip_ret' = strip_ret
            /\ strip_pc' = "raised"
            /\ strip_exc' = "ValueError"
    /\ UNCHANGED <<strip_n, strip_s, strip_depth>>
    /\ UNCHANGED <<arg, whileVars, scriptVars>>

----------------------------------------------------------------------------
(* def remove_zeros_while(n): while n % 10 == 0: n //= 10; return n *)

CallWhile(n, depth) ==
    /\ while_pc' = "test"
    /\ while_n' = n
    /\ while_ret' = 0
    /\ while_depth' = depth
    /\ while_arg' = n
    /\ while_iter' = 0

\* variant: while n != 0 and n % 10 == 0
WhileTestNonzero ==
    /\ while_pc = "test"
    /\ while_pc' = IF while_n # 0 /\ PyMod(while_n, 10) = 0 THEN "body" ELSE "return"
    /\ UNCHANGED <<while_n, while_ret, while_depth, while_arg, while_iter>>
    /\ UNCHANGED <<arg, stripVars, scriptVars>>

\* variant: while n > 0 and n % 10 == 0
WhileTestPositive ==
    /\ while_pc = "test"
    /\ while_pc' = IF while_n > 0 /\ PyMod(while_n, 10) = 0 THEN "body" ELSE "return"
    /\ UNCHANGED <<while_n, while_ret, while_depth, while_arg, while_iter>>
    /\ UNCHANGED <<arg, stripVars, scriptVars>>

WhileTest ==
    /\ while_pc = "test"
    /\ while_pc' = IF PyMod(while_n, 10) = 0 THEN "body" ELSE "return"
    /\ UNCHANGED <<while_n, while_ret, while_depth, while_arg, while_iter>>
    /\ UNCHANGED <<arg, stripVars, scriptVars>>

\* variant: if in place of while, the body runs once and falls to the return
WhileBodyIf ==
    /\ while_pc = "body"
    /\ while_n' = PyFloorDiv(while_n, 10)
    /\ while_iter' = IF while_iter < MaxIter THEN while_iter + 1 ELSE while_iter
    /\ while_pc' = "return"
    /\ UNCHANGED <<while_ret, while_depth, while_arg>>
    /\ UNCHANGED <<arg, stripVars, scriptVars>>

WhileBody ==
    /\ while_pc = "body"
    /\ while_n' = PyFloorDiv(while_n, 10)
    /\ while_iter' = IF while_iter < MaxIter THEN while_iter + 1 ELSE while_iter
    /\ while_pc' = "test"
    /\ UNCHANGED <<while_ret, while_depth, while_arg>>
    /\ UNCHANGED <<arg, stripVars, scriptVars>>

WhileReturn ==
    /\ while_pc = "return"
    /\ while_ret' = while_n
    /\ while_pc' = "returned"
    /\ UNCHANGED <<while_n, while_depth, while_arg, while_iter>>
    /\ UNCHANGED <<arg, stripVars, scriptVars>>

----------------------------------------------------------------------------
(* The module-level statements *)

\* variant: line 17 times remove_zeros_strip again
ScriptRepeated == <<
    [fn |-> "strip", n |-> 100],
    [fn |-> "while", n |-> 100],
    [fn |-> "while", n |-> 1000],
    [fn |-> "strip", n |-> 1000],
    [fn |-> "strip", n |-> 1000000],
    [fn |-> "strip", n |-> 1000000],
    [fn |-> "while", n |-> 1000000000],
    [fn |-> "strip", n |-> 1000000000] >>

\* lines 12-19: get_ipython().run_line_magic('timeit', '<fn>(<n>)')
Script == <<
    [fn |-> "strip", n |-> 100],
    [fn |-> "while", n |-> 100],
    [fn |-> "while", n |-> 1000],
    [fn |-> "strip", n |-> 1000],
    [fn |-> "strip", n |-> 1000000],
    [fn |-> "while", n |-> 1000000],
    [fn |-> "while", n |-> 1000000000],
    [fn |-> "strip", n |-> 1000000000] >>

\* the line of the first statement, and the line after the last one
FirstLine == 12
EndLine == FirstLine + Len(Script)
Stmt(l) == Script[l - FirstLine + 1]

----------------------------------------------------------------------------
(* The functions under an arbitrary caller: f(n), then f(f(n)) *)

Inputs == (-MaxN .. MaxN) \cup {Script[i].n : i \in 1..Len(Script)}

Idle ==
    /\ strip_pc = "idle" /\ strip_n = 0 /\ strip_s = <<>> /\ strip_ret = 0
    /\ strip_exc = "" /\ strip_depth = 0
    /\ while_pc = "idle" /\ while_n = 0 /\ while_ret = 0 /\ while_depth = 0
    /\ while_arg = 0 /\ while_iter = 0

Init ==
    /\ arg \in Inputs
    /\ Idle
    /\ line = 0 /\ reps = 0 /\ called = {}

ApplyStrip ==
    /\ strip_pc = "idle"
    /\ CallStrip(arg, 1)
    /\ UNCHANGED <<arg, whileVars, scriptVars>>

ApplyWhile ==
    /\ while_pc = "idle"
    /\ CallWhile(arg, 1)
    /\ UNCHANGED <<arg, stripVars, scriptVars>>

ReapplyStrip ==
    /\ strip_pc = "returned" /\ strip_depth = 1
    /\ CallStrip(strip_ret, 2)
    /\ UNCHANGED <<arg, whileVars, scriptVars>>

ReapplyWhile ==
    /\ while_pc = "returned" /\ while_depth = 1
    /\ CallWhile(while_ret, 2)
    /\ UNCHANGED <<arg, stripVars, scriptVars>>

Next ==
    \/ ApplyStrip \/ StripStr \/ StripRstrip \/ StripInt \/ ReapplyStrip
    \/ ApplyWhile \/ WhileTest \/ WhileBody \/ WhileReturn \/ ReapplyWhile

Spec == Init /\ [][Next]_vars

\* the loop of lines 8-9 is not preempted for ever
FairSpec == Spec /\ WF_vars(WhileTest) /\ WF_vars(WhileBody) /\ WF_vars(WhileReturn)

----------------------------------------------------------------------------
(* The run of the module-level statements, lines 12-19 *)

ScriptInit ==
    /\ arg = 0
    /\ Idle
    /\ line = FirstLine /\ reps = 0 /\ called = {}

\* the call the current statement made last has come back
CallReturned ==
    IF Stmt(line).fn = "strip" THEN strip_pc = "returned" ELSE while_pc = "returned"

\* %timeit evaluates its statement: once more, up to MaxReps times
Timeit ==
    /\ line \in FirstLine .. EndLine - 1
    /\ reps < MaxReps
    /\ reps = 0 \/ CallReturned
    /\ arg' = Stmt(line).n
    /\ IF Stmt(line).fn = "strip"
       THEN CallStrip(Stmt(line).n, 1) /\ UNCHANGED whileVars
       ELSE CallWhile(Stmt(line).n, 1) /\ UNCHANGED stripVars
    /\ reps' = reps + 1
    /\ called' = called \cup {<<Stmt(line).fn, Stmt(line).n>>}
    /\ UNCHANGED line

\* %timeit is done with its statement: on to the next line
NextStmt ==
    /\ line \in FirstLine .. EndLine - 1
    /\ reps >= 1
    /\ CallReturned
    /\ line' = line + 1
    /\ reps' = 0
    /\ UNCHANGED <<arg, stripVars, whileVars, called>>

ScriptNext ==
    \/ Timeit \/ NextStmt
    \/ StripStr \/ StripRstrip \/ StripInt
    \/ WhileTest \/ WhileBody \/ WhileReturn

ScriptSpec == ScriptInit /\ [][ScriptNext]_vars

----------------------------------------------------------------------------
(* Vocabulary of the properties *)

Abs(x) == IF x < 0 THEN -x ELSE x

RECURSIVE Pow10(_)
Pow10(k) == IF k = 0 THEN 1 ELSE 10 * Pow10(k - 1)

\* r is m without its trailing decimal zeros, for m > 0:
\* r ends in a nonzero digit and m = r * 10^k for some k >= 0
StripsTo(m, r) ==
    /\ r > 0
    /\ r % 10 # 0
    /\ \E k \in 0 .. Len(StrNat(m)) - 1 :
          /\ Pow10(k) <= m
          /\ r <= m \div Pow10(k)
          /\ r * Pow10(k) = m

\* number of "0" characters at the right end of a decimal string
RECURSIVE ZerosAtEnd(_)
ZerosAtEnd(s) ==
    IF s # <<>> /\ s[Len(s)] = "0" THEN 1 + ZerosAtEnd(SubSeq(s, 1, Len(s) - 1)) ELSE 0

TrailingZeros(n) == ZerosAtEnd(Str(n))

StripDone(d) == strip_depth = d /\ strip_pc = "returned"
WhileDone(d) == while_depth = d /\ while_pc = "returned"

----------------------------------------------------------------------------
(* Properties *)

\* C1: for every positive n, remove_zeros_strip(n) and remove_zeros_while(n)
\* return the same integer (and remove_zeros_strip does not raise).
C1_SameResult ==
    (arg > 0 /\ strip_depth = 1 /\ while_depth = 1) =>
        /\ strip_pc # "raised"
        /\ (strip_pc = "returned" /\ while_pc = "returned") => strip_ret = while_ret

C1_Witness ==
    /\ arg = 1010 /\ StripDone(1) /\ WhileDone(1)
    /\ strip_ret = 101 /\ while_ret = 101

\* C2: for every positive n, remove_zeros_while(n) returns r with r mod 10 # 0
\* and n = r * 10^k for some k >= 0; r is never 0.
C2_WhileStrips ==
    (while_pc = "returned" /\ while_arg > 0) =>
        /\ while_ret # 0
        /\ StripsTo(while_arg, while_ret)

C2_Witness ==
    /\ while_pc = "returned" /\ while_arg = 1000000000 /\ while_ret = 1 /\ while_iter = 9

\* C3: for every positive n, the decimal digits of remove_zeros_strip(n) are
\* those of n with the '0' digits at the right end removed: str(result) is a
\* prefix of str(n), what follows it in str(n) is all '0', the result ends in
\* a nonzero digit and has no more digits than n.
C3_StripDigits ==
    (strip_pc = "returned" /\ strip_n > 0) =>
        LET a == Str(strip_n)
            r == Str(strip_ret)
        IN  /\ Len(r) >= 1
            /\ Len(r) <= Len(a)
            /\ SubSeq(a, 1, Len(r)) = r
            /\ \A i \in Len(r) + 1 .. Len(a) : a[i] = "0"
            /\ r[Len(r)] # "0"

C3_Witness ==
    /\ strip_pc = "returned" /\ strip_n = 1000000
    /\ Str(strip_ret) = <<"1">> /\ Len(Str(strip_n)) = 7

\* C4: idempotence, for every positive n and both functions: f(f(n)) = f(n).
\* At depth 2 the function runs on its own result f(n), and must return it.
C4_Idempotent ==
    arg > 0 =>
        /\ (strip_depth = 2 /\ strip_pc \in {"returned", "raised"}) =>
              strip_pc = "returned" /\ strip_ret = strip_n
        /\ (while_depth = 2 /\ while_pc = "returned") =>
              while_ret = while_arg /\ while_iter = 0

C4_Witness ==
    /\ arg = 120
    /\ StripDone(2) /\ strip_n = 12 /\ strip_ret = 12
    /\ WhileDone(2) /\ while_arg = 12 /\ while_ret = 12

\* C5: remove_zeros_strip(0) does not return: rstrip leaves the empty string,
\* int fails on it with ValueError, and the call ends raised.
C5_StripZeroRaises ==
    (strip_pc # "idle" /\ strip_n = 0) =>
        /\ strip_pc # "returned"
        /\ strip_pc = "int" => (strip_s = <<>> /\ ~IntOk(strip_s))
        /\ strip_pc = "raised" => (strip_s = <<>> /\ strip_exc = "ValueError")
        /\ strip_pc # "raised" => strip_exc = ""

C5_Witness ==
    /\ arg = 0 /\ strip_n = 0 /\ strip_pc = "raised" /\ strip_exc = "ValueError"

\* C6: remove_zeros_while(0) never terminates: the call stays in the loop of
\* lines 8-9 with n = 0 and never gets to the return statement.
C6_WhileZeroLoops ==
    (while_pc # "idle" /\ while_arg = 0) =>
        /\ while_pc \in {"test", "body"}
        /\ while_n = 0
        /\ while_pc = "test" => PyMod(while_n, 10) = 0

C6_Witness ==
    /\ while_arg = 0 /\ while_pc = "body" /\ while_iter >= 5 /\ while_n = 0

\* C7: f(100) = f(1000) = f(1000000) = f(1000000000) = 1, f(120) = 12 and
\* f(7) = 7, for both functions.
Expected == (100 :> 1) @@ (1000 :> 1) @@ (1000000 :> 1) @@ (1000000000 :> 1)
            @@ (120 :> 12) @@ (7 :> 7)

C7_Concrete ==
    (arg \in DOMAIN Expected) =>
        /\ strip_depth = 1 => strip_pc # "raised"
        /\ StripDone(1) => strip_ret = Expected[arg]
        /\ WhileDone(1) => while_ret = Expected[arg]

C7_Witness ==
    /\ arg = 1000000000 /\ StripDone(1) /\ WhileDone(1)
    /\ strip_ret = 1 /\ while_ret = 1

\* C8 as stated: the arguments passed over the whole run of the script are
\* exactly 100, 1000 and 1000000000, each function called on each.
C8_ThreeMagnitudes ==
    /\ {c[2] : c \in called} \subseteq {100, 1000, 1000000000}
    /\ line = EndLine => called = {"strip", "while"} \X {100, 1000, 1000000000}

\* C8 amended: the arguments passed over the whole run of the script are
\* exactly 100, 1000, 1000000 and 1000000000, each function called on each.
C8_FourMagnitudes ==
    /\ {c[2] : c \in called} \subseteq {100, 1000, 1000000, 1000000000}
    /\ line = EndLine =>
          called = {"strip", "while"} \X {100, 1000, 1000000, 1000000000}

C8_Witness ==
    /\ line = EndLine
    /\ <<"strip", 1000000>> \in called /\ <<"while", 1000000>> \in called

\* C9: for every nonzero n, the loop of remove_zeros_while ends after exactly
\* k iterations, k the number of trailing decimal zeros of n; at every step
\* n_now * 10^iterations = n, and |n_now| decreases with each iteration.
C9_LoopInvariant ==
    (while_pc # "idle" /\ while_arg # 0) =>
        /\ while_iter <= TrailingZeros(while_arg)
        /\ while_n * Pow10(while_iter) = while_arg
        /\ while_pc = "body" => while_iter < TrailingZeros(while_arg)
        /\ while_pc \in {"return", "returned"} => while_iter = TrailingZeros(while_arg)

C9_Decreases ==
    [][(while_arg # 0 /\ while_pc = "body" /\ while_pc' = "test")
          => Abs(while_n') < Abs(while_n)]_vars

C9_Terminates ==
    (while_pc = "test" /\ while_arg # 0) ~> (while_pc = "returned")

C9_LoopTerminates == []C9_LoopInvariant /\ C9_Decreases /\ C9_Terminates

C9_Witness ==
    /\ while_arg = -1000 /\ while_pc = "returned" /\ while_iter = 3 /\ while_ret = -1

\* C10: for every negative n, both functions return, and return -g(|n|),
\* g(m) being m without its trailing decimal zeros.
C10_Negative ==
    (arg < 0) =>
        /\ strip_depth = 1 => strip_pc # "raised"
        /\ StripDone(1) => (strip_ret < 0 /\ StripsTo(-arg, -strip_ret))
        /\ WhileDone(1) => (while_ret < 0 /\ StripsTo(-arg, -while_ret))
        /\ (StripDone(1) /\ WhileDone(1)) => strip_ret = while_ret

C10_Witness ==
    /\ arg = -1010 /\ StripDone(1) /\ WhileDone(1)
    /\ strip_ret = -101 /\ while_ret = -101

====
